---- MODULE Spec2Model ----
(***************************************************************************)
(* easycert: a command-line wrapper around OpenSSL.  The model covers the  *)
(* command dispatcher of main(), the directory initializer SetupDir(), the *)
(* Go emitter Cert2Lang() and printCert(), over an explicit filesystem.    *)
(* Strings are sequences of one-character strings so that path building,   *)
(* cleaning and base-name extraction are computed, not assumed.            *)
(***************************************************************************)
EXTENDS Naturals, Sequences, FiniteSets, TLC

(* ------------------------------------------------------------------ *)
(* Strings                                                            *)
(*                                                                    *)
(* A string is held as the sequence of its parts between path         *)
(* separators, each part a sequence of characters: "/h/a.crt" is      *)
(* << <<>>, <<"h">>, <<"a", ".", "c", "r", "t">> >>, the empty string  *)
(* is << <<>> >>.  Every string has exactly one such form.            *)
(* ------------------------------------------------------------------ *)

\* os.PathSeparator on the platforms the layout targets.
PathSeparator == "/"

RECURSIVE SplitFrom(_, _, _)
SplitFrom(s, i, cur) ==
  IF i > Len(s) THEN << cur >>
  ELSE IF s[i] = PathSeparator THEN << cur >> \o SplitFrom(s, i + 1, << >>)
  ELSE SplitFrom(s, i + 1, Append(cur, s[i]))

\* The string with the characters cs.
Str(cs) == SplitFrom(cs, 1, << >>)

EmptyStr == << << >> >>

\* a + b
Concat(a, b) ==
  SubSeq(a, 1, Len(a) - 1) \o << a[Len(a)] \o b[1] >> \o Tail(b)

\* s[0] of a non-empty string.
FirstChar(s) == IF s[1] = << >> THEN PathSeparator ELSE s[1][1]

\* Byte order of the characters that occur in the modelled file names.
CharOrder ==
  << "-", ".", "/", "_", "a", "b", "c", "d", "e", "f", "g", "h", "i", "j", "k",
     "l", "m", "n", "o", "p", "q", "r", "s", "t", "u", "v", "w", "x", "y", "z" >>

CharRank(c) == CHOOSE i \in 1..Len(CharOrder) : CharOrder[i] = c

\* Go's string comparison on two separator-free strings: bytewise
\* lexicographic.
RECURSIVE StrLess(_, _)
StrLess(a, b) ==
  IF b = << >> THEN FALSE
  ELSE IF a = << >> THEN TRUE
  ELSE IF Head(a) = Head(b) THEN StrLess(Tail(a), Tail(b))
  ELSE CharRank(Head(a)) < CharRank(Head(b))

HasSuffix(s, suf) ==
  /\ Len(s) >= Len(suf)
  /\ SubSeq(s, Len(s) - Len(suf) + 1, Len(s)) = suf

\* filepath.Clean on the parts of a path: drop empty and "." parts, resolve
\* ".." against the part before it (dropped at the root, kept at the start
\* of a relative path).
RECURSIVE CleanElems(_, _, _)
CleanElems(es, out, rooted) ==
  IF es = << >> THEN out
  ELSE IF Head(es) = << >> \/ Head(es) = << "." >>
    THEN CleanElems(Tail(es), out, rooted)
  ELSE IF Head(es) = << ".", "." >>
    THEN IF out # << >> /\ out[Len(out)] # << ".", "." >>
           THEN CleanElems(Tail(es), SubSeq(out, 1, Len(out) - 1), rooted)
         ELSE IF rooted THEN CleanElems(Tail(es), out, rooted)
         ELSE CleanElems(Tail(es), Append(out, Head(es)), rooted)
  ELSE CleanElems(Tail(es), Append(out, Head(es)), rooted)

IsRooted(p) == Len(p) > 1 /\ p[1] = << >>

Clean(p) ==
  IF p = EmptyStr THEN << << "." >> >>
  ELSE IF IsRooted(p)
    THEN IF CleanElems(p, << >>, TRUE) = << >> THEN << << >>, << >> >>
         ELSE << << >> >> \o CleanElems(p, << >>, TRUE)
  ELSE IF CleanElems(p, << >>, FALSE) = << >> THEN << << "." >> >>
  ELSE CleanElems(p, << >>, FALSE)

\* filepath.Join of two elements: empty elements are ignored, the rest is
\* joined with the separator and cleaned.
Join(a, b) ==
  IF a = EmptyStr /\ b = EmptyStr THEN EmptyStr
  ELSE IF a = EmptyStr THEN Clean(b)
  ELSE IF b = EmptyStr THEN Clean(a)
  ELSE Clean(a \o b)

RECURSIVE StripTrailingSep(_)
StripTrailingSep(p) ==
  IF Len(p) > 1 /\ p[Len(p)] = << >>
    THEN StripTrailingSep(SubSeq(p, 1, Len(p) - 1))
    ELSE p

\* filepath.Base: the last element of the path, as a string.
Base(p) ==
  IF p = EmptyStr THEN << << "." >> >>
  ELSE IF StripTrailingSep(p) = EmptyStr THEN << << >>, << >> >>
  ELSE << StripTrailingSep(p)[Len(StripTrailingSep(p))] >>

\* The directory a cleaned path lies in.
ParentOf(p) ==
  IF Len(p) = 1 THEN << << "." >> >>
  ELSE IF Len(p) = 2 /\ p[1] = << >> THEN << << >>, << >> >>
  ELSE SubSeq(p, 1, Len(p) - 1)

(* ------------------------------------------------------------------ *)
(* Constants of the program and the directory layout                  *)
(* ------------------------------------------------------------------ *)

_DIR_ROOT == Str(<< ".", "c", "e", "r", "t" >>)
_NAME_CA == Str(<< "c", "a" >>)
_FILE_CONFIG == Str(<< "o", "p", "e", "n", "s", "s", "l", ".", "c", "f", "g" >>)
_FILE_SERVER_GO ==
  Str(<< "z", "-", "c", "e", "r", "t", "_", "s", "r", "v", ".", "g", "o" >>)
_FILE_CLIENT_GO ==
  Str(<< "z", "-", "c", "e", "r", "t", "_", "c", "l", ".", "g", "o" >>)

EXT_CERT == Str(<< ".", "c", "r", "t" >>)
EXT_KEY == Str(<< ".", "k", "e", "y" >>)
EXT_REQUEST == Str(<< ".", "c", "s", "r" >>)

\* user.Current().HomeDir of the invoking user.
HomeDir == Str(<< "/", "h" >>)

root == Join(HomeDir, _DIR_ROOT)

Dir ==
  [ Root    |-> root,
    Cert    |-> Join(root, Str(<< "c", "e", "r", "t", "s" >>)),
    NewCert |-> Join(root, Str(<< "n", "e", "w", "c", "e", "r", "t", "s" >>)),
    Key     |-> Join(root, Str(<< "p", "r", "i", "v", "a", "t", "e" >>)),
    Revok   |-> Join(root, Str(<< "c", "r", "l" >>)) ]

\* File as init() leaves it: Cert, Key and Request are zero values.
FileInit ==
  [ Config  |-> Join(Dir.Root, _FILE_CONFIG),
    Index   |-> Join(Dir.Root, Str(<< "i", "n", "d", "e", "x", ".", "t", "x", "t" >>)),
    Serial  |-> Join(Dir.Root, Str(<< "s", "e", "r", "i", "a", "l" >>)),
    Cert    |-> EmptyStr,
    Key     |-> EmptyStr,
    Request |-> EmptyStr ]

(* ------------------------------------------------------------------ *)
(* Filesystem: path -> [kind, perm, data]; perm is three octal digits, *)
(* data a sequence of bytes (or one token for content OpenSSL or a     *)
(* template produces)                                                  *)
(* ------------------------------------------------------------------ *)

HasBit(d, b) == (d \div b) % 2 = 1

DigitAndNot(d, m) ==
  (IF HasBit(d, 4) /\ ~HasBit(m, 4) THEN 4 ELSE 0)
  + (IF HasBit(d, 2) /\ ~HasBit(m, 2) THEN 2 ELSE 0)
  + (IF HasBit(d, 1) /\ ~HasBit(m, 1) THEN 1 ELSE 0)

\* perm &^ umask, as the kernel applies it on mkdir(2) and open(2).
ApplyUmask(perm, um) == [ i \in 1..3 |-> DigitAndNot(perm[i], um[i]) ]

Exists(f, p) == p \in DOMAIN f

IsDir(f, p) == Exists(f, p) /\ f[p].kind = "dir"

Put(f, p, e) == (p :> e) @@ f

\* The process umask values considered.
Umasks == { << 0, 2, 2 >>, << 0, 7, 7 >> }

DefaultUmask == << 0, 2, 2 >>

\* os.Mkdir(p, perm): fails when p exists or its parent is no directory.
MkdirOK(f, p) == ~Exists(f, p) /\ IsDir(f, ParentOf(p))

Mkdir(f, p, perm, um) ==
  Put(f, p, [ kind |-> "dir", perm |-> ApplyUmask(perm, um), data |-> << >> ])

\* os.Chmod(p, perm): not subject to the umask.
Chmod(f, p, perm) == [ f EXCEPT ![p].perm = perm ]

\* os.Create / os.OpenFile(O_CREATE|O_TRUNC, 0666): an existing file is
\* truncated and keeps its mode, a new one gets 0666 &^ umask.
CreateOK(f, p) ==
  /\ IsDir(f, ParentOf(p))
  /\ Exists(f, p) => f[p].kind = "file"

Create(f, p, um) ==
  IF Exists(f, p) THEN [ f EXCEPT ![p].data = << >> ]
  ELSE Put(f, p, [ kind |-> "file", perm |-> ApplyUmask(<< 6, 6, 6 >>, um),
                   data |-> << >> ])

WriteData(f, p, d) == [ f EXCEPT ![p].data = d ]

\* os.Stat(p) reporting something other than "does not exist".
StatFound(f, p) == Exists(f, Clean(p))

IsFile(f, p) == Exists(f, Clean(p)) /\ f[Clean(p)].kind = "file"

\* The entries of directory d, each as the path Join(d, name).
Children(f, d) == { p \in DOMAIN f : p # d /\ ParentOf(p) = d }

\* A sequence listing the set S of paths of one directory in increasing
\* byte order of their names.
RECURSIVE SortPaths(_)
SortPaths(S) ==
  IF S = {} THEN << >>
  ELSE LET m == CHOOSE p \in S :
                  \A q \in S \ {p} : StrLess(p[Len(p)], q[Len(q)])
       IN << m >> \o SortPaths(S \ {m})

\* filepath.Glob(filepath.Join(d, "*" + ext)): the entries of d whose name
\* ends in ext, sorted.
Glob(f, d, ext) ==
  SortPaths({ p \in Children(f, d) : HasSuffix(p[Len(p)], ext[1]) })

(* ------------------------------------------------------------------ *)
(* SetupDir                                                           *)
(* ------------------------------------------------------------------ *)

\* The steps of SetupDir that can return an error, in program order.
SetupSteps ==
  << "mkdirRoot", "mkdirCert", "mkdirNewCert", "mkdirKey", "mkdirRevok",
     "chmodKey", "createIndex", "createSerial", "writeSerial", "hostname",
     "import", "statTemplate", "parseTemplate", "createConfig",
     "executeTemplate", "chmodConfig" >>

SetupMkdirTarget(s) ==
  CASE s = "mkdirRoot" -> Dir.Root
    [] s = "mkdirCert" -> Dir.Cert
    [] s = "mkdirNewCert" -> Dir.NewCert
    [] s = "mkdirKey" -> Dir.Key
    [] s = "mkdirRevok" -> Dir.Revok

SetupIsMkdir(s) ==
  s \in { "mkdirRoot", "mkdirCert", "mkdirNewCert", "mkdirKey", "mkdirRevok" }

\* Whether step s can succeed on filesystem f; errs are the steps of the
\* run that failed before it.  A template that could not be stat'ed for
\* another reason than absence cannot be read by ParseFiles either.
SetupStepOK(s, f, errs) ==
  CASE SetupIsMkdir(s) -> MkdirOK(f, SetupMkdirTarget(s))
    [] s = "chmodKey" -> Exists(f, Dir.Key)
    [] s = "createIndex" -> CreateOK(f, FileInit.Index)
    [] s = "createSerial" -> CreateOK(f, FileInit.Serial)
    [] s = "writeSerial" -> Exists(f, FileInit.Serial)
    [] s = "parseTemplate" -> \A i \in 1..Len(errs) : errs[i] # "statTemplate"
    [] s = "createConfig" -> CreateOK(f, FileInit.Config)
    [] s = "executeTemplate" -> Exists(f, FileInit.Config)
    [] s = "chmodConfig" -> Exists(f, FileInit.Config)
    [] OTHER -> TRUE

\* The filesystem after step s succeeded.
SetupStepFS(s, f, um) ==
  CASE SetupIsMkdir(s) -> Mkdir(f, SetupMkdirTarget(s), << 7, 5, 5 >>, um)
    [] s = "chmodKey" -> Chmod(f, Dir.Key, << 7, 1, 0 >>)
    [] s = "createIndex" -> Create(f, FileInit.Index, um)
    [] s = "createSerial" -> Create(f, FileInit.Serial, um)
    [] s = "writeSerial" -> WriteData(f, FileInit.Serial, << "0", "1", "\n" >>)
    [] s = "createConfig" -> Create(f, FileInit.Config, um)
    [] s = "executeTemplate" -> WriteData(f, FileInit.Config, << "<config>" >>)
    [] s = "chmodConfig" -> Chmod(f, FileInit.Config, << 6, 0, 0 >>)
    [] OTHER -> f

\* Whether an error of step s ends the run (log.Fatal) or is only logged
\* (log.Print, line 443).  A stat error other than "not exist" is not
\* looked at (line 413).
SetupStepFatal(s, notExist) ==
  /\ s # "chmodConfig"
  /\ s = "statTemplate" => notExist

\* The filesystem after steps k.. of SetupDir all succeeded.
RECURSIVE SetupFrom(_, _, _)
SetupFrom(k, f, um) ==
  IF k > Len(SetupSteps) THEN f
  ELSE SetupFrom(k + 1, SetupStepFS(SetupSteps[k], f, um), um)

(* ------------------------------------------------------------------ *)
(* Cert2Lang                                                          *)
(* ------------------------------------------------------------------ *)

\* The steps of Cert2Lang that can return an error, in program order.
Cert2LangSteps ==
  << "readCA", "readCert", "readKey", "version", "openServer", "endDate",
     "executeServer", "openClient", "executeClient" >>

Cert2LangStepOK(s, f, F, ca) ==
  CASE s = "readCA" -> IsFile(f, ca)
    [] s = "readCert" -> IsFile(f, F.Cert)
    [] s = "readKey" -> IsFile(f, F.Key)
    [] s = "openServer" -> CreateOK(f, _FILE_SERVER_GO)
    [] s = "executeServer" -> Exists(f, _FILE_SERVER_GO)
    [] s = "openClient" -> CreateOK(f, _FILE_CLIENT_GO)
    [] s = "executeClient" -> Exists(f, _FILE_CLIENT_GO)
    [] OTHER -> TRUE

Cert2LangStepFS(s, f, um) ==
  CASE s = "openServer" -> Create(f, _FILE_SERVER_GO, um)
    [] s = "executeServer" -> WriteData(f, _FILE_SERVER_GO, << "<go-server>" >>)
    [] s = "openClient" -> Create(f, _FILE_CLIENT_GO, um)
    [] s = "executeClient" -> WriteData(f, _FILE_CLIENT_GO, << "<go-client>" >>)
    [] OTHER -> f

(* ------------------------------------------------------------------ *)
(* printCert                                                          *)
(* ------------------------------------------------------------------ *)

\* The matched path printed as it is, without filepath.Base.
PrintedNameFull(v) == v

\* What printCert shows for one matched path (line 528).
PrintedName(v) == Base(v)

\* The line printCert writes: nothing for an empty list, else the entries
\* tab-separated on one line.
printCert(cert) ==
  IF Len(cert) = 0 THEN << >>
  ELSE << [ kind |-> "list",
            val |-> [ i \in 1..Len(cert) |-> PrintedName(cert[i]) ] ] >>

(* ------------------------------------------------------------------ *)
(* Command line                                                       *)
(* ------------------------------------------------------------------ *)

\* The flags main() declares (lines 147-179).
FlagNames ==
  { "new", "ca", "years", "rsa-size", "req", "sign", "host", "lang-go",
    "ca-cert", "server-cert", "chk", "cert", "key", "cat", "i", "end-date",
    "hash", "full", "issuer", "name", "lc", "lr" }

\* At most this many flags are given on one command line.
MaxFlags == 2

\* Values tried for -years.
MaxYears == 2

\* Runs of the program in one behaviour of the -new sequences.
MaxNewRuns == 2

\* Length of the names tried for path resolution.
MaxNameLen == 3

RECURSIVE FlagSetsUpTo(_)
FlagSetsUpTo(k) ==
  IF k = 0 THEN { {} }
  ELSE LET S == FlagSetsUpTo(k - 1)
       IN S \cup { fl \cup {x} : fl \in S, x \in FlagNames }

FlagSets == FlagSetsUpTo(MaxFlags)

\* Positional arguments tried: none, a NAME, the empty string, FILENAMEs.
NameInputs ==
  { Str(<< "a" >>), EmptyStr, Str(<< ".", "/", "a" >>), Str(<< "/", "a" >>) }

ArgInputs == { << >> } \cup { << n >> : n \in NameInputs }

CACertInputs == { EmptyStr, Str(<< "a" >>), Str(<< "/", "a" >>) }

ServerCertInputs == { EmptyStr, Str(<< "a" >>) }

(* ------------------------------------------------------------------ *)
(* State                                                              *)
(* ------------------------------------------------------------------ *)

VARIABLES
  fs,          \* the filesystem
  fs0,         \* the filesystem when the current run started
  runs,        \* number of runs started
  pc,          \* position of the current run in main()
  flags,       \* the flags set on the command line (flag.NFlag() = size)
  args,        \* flag.Args()
  Years,       \* *Years
  CACert,      \* *CACert
  ServerCert,  \* *ServerCert
  filename,    \* main's local
  File,        \* the File singleton
  isExit,      \* main's local
  calls,       \* operations invoked by the run, in order
  out,         \* what the run wrote to standard output
  failed,      \* the steps of the run that returned an error
  msg,         \* the message of log.Fatal, when the run ended by it
  status,      \* "running", "exit0", "exit2", "fatal" (log.Fatal), "panic"
  step,        \* inside SetupDir and Cert2Lang: the index of the next step
  umask        \* the umask of the process, drawn when a run first creates
               \* a file or a directory

vars ==
  << fs, fs0, runs, pc, flags, args, Years, CACert, ServerCert, filename,
     File, isExit, calls, out, failed, msg, status, step, umask >>

IsNew == "new" \in flags
IsCA == "ca" \in flags
IsRequest == "req" \in flags
IsSignReq == "sign" \in flags
IsGoLang == "lang-go" \in flags
IsCheck == "chk" \in flags
IsCert == "cert" \in flags
IsKey == "key" \in flags
IsCat == "cat" \in flags
IsInfo == "i" \in flags
IsEndDate == "end-date" \in flags
IsHash == "hash" \in flags
IsFullInfo == "full" \in flags
IsIssuer == "issuer" \in flags
IsName == "name" \in flags
IsCertList == "lc" \in flags
IsReqList == "lr" \in flags

Call(op, file) == [ op |-> op, file |-> file, years |-> Years ]

DirEntry(perm) == [ kind |-> "dir", perm |-> perm, data |-> << >> ]

\* Before anything was created: the home directory and the working directory.
FS_Empty ==
  [ p \in { Str(<< "/" >>), HomeDir, Str(<< "." >>) } |-> DirEntry(<< 7, 5, 5 >>) ]

(* ------------------------------------------------------------------ *)
(* Path resolution (main, lines 251-285)                              *)
(* ------------------------------------------------------------------ *)

\* The name whose files -req, -sign and -ca work on (lines 254-258).
\* Called only when -ca is given or a positional argument is present.
PathName(isCA, a) == IF isCA THEN _NAME_CA ELSE a[1]

\* The key placed beside the certificate: Dir.Cert for Dir.Key.
ResolvePathsKeyInCert(F, name) ==
  [ F EXCEPT !.Cert = Join(Dir.Cert, Concat(name, EXT_CERT)),
             !.Key = Join(Dir.Cert, Concat(name, EXT_KEY)),
             !.Request = Join(Dir.Root, Concat(name, EXT_REQUEST)) ]

\* Lines 259-261.
ResolvePaths(F, name) ==
  [ F EXCEPT !.Cert = Join(Dir.Cert, Concat(name, EXT_CERT)),
             !.Key = Join(Dir.Key, Concat(name, EXT_KEY)),
             !.Request = Join(Dir.Root, Concat(name, EXT_REQUEST)) ]

\* Lines 267-269: a -ca-cert value that is a NAME becomes a path.
ResolveCACert(ca) ==
  IF FirstChar(ca) # "." /\ FirstChar(ca) # PathSeparator
    THEN Join(Dir.Cert, Concat(ca, EXT_CERT))
    ELSE ca

\* Lines 278-284, for a non-empty fn.
ResolveName(fn, isCert, isKey) ==
  IF FirstChar(fn) # "." /\ FirstChar(fn) # PathSeparator
    THEN IF isCert THEN Join(Dir.Cert, Concat(fn, EXT_CERT))
         ELSE IF isKey THEN Join(Dir.Key, Concat(fn, EXT_KEY))
         ELSE fn
    ELSE fn

(* ------------------------------------------------------------------ *)
(* The operations that run OpenSSL                                    *)
(* ------------------------------------------------------------------ *)

\* NewRequest writes the private key and the request of File.
NewRequestOK(f, F) == CreateOK(f, F.Key) /\ CreateOK(f, F.Request)

NewRequestFS(f, F, um) ==
  WriteData(Create(WriteData(Create(f, F.Key, um), F.Key, << "<key>" >>),
                   F.Request, um), F.Request, << "<csr>" >>)

\* SignReq reads the request of File and writes its certificate.
SignReqOK(f, F) == IsFile(f, F.Request) /\ CreateOK(f, F.Cert)

SignReqFS(f, F, um) == WriteData(Create(f, F.Cert, um), F.Cert, << "<crt>" >>)

\* BuildCA writes the key and the self-signed certificate of File.
BuildCAOK(f, F) == CreateOK(f, F.Key) /\ CreateOK(f, F.Cert)

BuildCAFS(f, F, um) ==
  WriteData(Create(WriteData(Create(f, F.Key, um), F.Key, << "<key>" >>),
                   F.Cert, um), F.Cert, << "<crt>" >>)

(* ------------------------------------------------------------------ *)
(* Filesystems a run can start from                                   *)
(* ------------------------------------------------------------------ *)

\* After "easycert -new -ca".
FS_CA ==
  BuildCAFS(SetupFrom(1, FS_Empty, DefaultUmask),
            ResolvePaths(FileInit, _NAME_CA), DefaultUmask)

\* After "easycert -req -sign a" on FS_CA.
FS_Signed ==
  LET F == ResolvePaths(FileInit, Str(<< "a" >>))
  IN SignReqFS(NewRequestFS(FS_CA, F, DefaultUmask), F, DefaultUmask)

\* FS_Signed after the user deleted the request, which is no longer needed
\* once signed (lines 45-47).
FS_SignedNoReq ==
  LET gone == ResolvePaths(FileInit, Str(<< "a" >>)).Request
  IN [ p \in DOMAIN FS_Signed \ {gone} |-> FS_Signed[p] ]

InitFS == { FS_Empty, FS_CA, FS_Signed, FS_SignedNoReq }

(* ------------------------------------------------------------------ *)
(* main                                                               *)
(* ------------------------------------------------------------------ *)

\* The if-blocks of main after the path switch, in program order, each
\* named by the flag that guards it (lines 287-366).
Blocks == << "chk", "cat", "i", "req", "sign", "lang-go", "new", "ca" >>

\* Control reaches the first block after block i whose flag is set, or the
\* end of main.
LaterBlocks(i) == { j \in (i + 1)..Len(Blocks) : Blocks[j] \in flags }

Min(S) == CHOOSE m \in S : \A n \in S : m <= n

Exit(code) ==
  /\ pc' = "done"
  /\ status' = code

Fatal(m) ==
  /\ pc' = "done"
  /\ status' = "fatal"
  /\ msg' = m

Advance(i) ==
  IF LaterBlocks(i) = {} THEN Exit("exit0")
  ELSE pc' = Blocks[Min(LaterBlocks(i))] /\ status' = status

InitWith(FSs) ==
  /\ fs \in FSs
  /\ fs0 = fs
  /\ runs = 0
  /\ pc = "idle"
  /\ flags = {}
  /\ args = << >>
  /\ Years = 1
  /\ CACert = _NAME_CA
  /\ ServerCert = EmptyStr
  /\ filename = EmptyStr
  /\ File = FileInit
  /\ isExit = FALSE
  /\ calls = << >>
  /\ out = << >>
  /\ failed = << >>
  /\ msg = "none"
  /\ status = "idle"
  /\ step = 0
  /\ umask = DefaultUmask

Init == InitWith(InitFS)

\* A new process given flags fl and positional arguments a: init(),
\* flag.Parse() and the NFlag test (lines 84-114, 217-225).
StartWith(fl, a) ==
  /\ \E y \in (IF "years" \in fl THEN 1..MaxYears ELSE {1}),
        ca \in (IF "ca-cert" \in fl THEN CACertInputs ELSE { _NAME_CA }),
        sc \in (IF "server-cert" \in fl THEN ServerCertInputs ELSE { EmptyStr }) :
       /\ Years' = y
       /\ CACert' = ca
       /\ ServerCert' = sc
  /\ flags' = fl
  /\ args' = a
  /\ IF fl = {} THEN pc' = "done" /\ status' = "exit2"
     ELSE pc' = "list" /\ status' = "running"
  /\ runs' = runs + 1
  /\ fs0' = fs
  /\ filename' = EmptyStr
  /\ File' = FileInit
  /\ isExit' = FALSE
  /\ calls' = << >>
  /\ out' = << >>
  /\ failed' = << >>
  /\ msg' = "none"
  /\ step' = 0
  /\ umask' = DefaultUmask
  /\ UNCHANGED fs

\* One invocation of the program, with any command line.
Start ==
  /\ pc = "idle"
  /\ \E fl \in FlagSets, a \in ArgInputs : StartWith(fl, a)

\* The list section without its exits: main goes on after listing.
ListExitsNever(isCertList, isReqList) == FALSE

\* Whether the list section ends the run (lines 234, 242, 244-246).
ListExits(isCertList, isReqList) == isCertList \/ isReqList

\* Lines 227-247.
ListStep ==
  /\ pc = "list"
  /\ IF Len(args) = 0
       THEN /\ out' = out
                 \o (IF IsCertList THEN printCert(Glob(fs, Dir.Cert, EXT_CERT))
                     ELSE << >>)
                 \o (IF IsReqList THEN printCert(Glob(fs, Dir.Root, EXT_REQUEST))
                     ELSE << >>)
            /\ calls' = calls
                 \o (IF IsCertList THEN << Call("ListCert", Dir.Cert) >> ELSE << >>)
                 \o (IF IsReqList THEN << Call("ListReq", Dir.Root) >> ELSE << >>)
            /\ isExit' = IsCertList
            /\ IF ListExits(IsCertList, IsReqList) THEN Exit("exit0")
               ELSE pc' = "paths" /\ status' = status
       ELSE /\ pc' = "paths"
            /\ UNCHANGED << out, calls, isExit, status >>
  /\ UNCHANGED << fs, fs0, runs, flags, args, Years, CACert, ServerCert,
                  filename, File, failed, msg, step, umask >>

\* Indexing an empty slice or string is a run-time panic.
Panic ==
  /\ Exit("panic")
  /\ UNCHANGED << filename, File, CACert, msg >>

\* Lines 249-285.
SetPaths ==
  /\ pc = "paths"
  /\ IF IsRequest \/ IsSignReq \/ IsCA
       THEN IF ~IsCA /\ Len(args) = 0 THEN Panic
            ELSE /\ filename' = PathName(IsCA, args)
                 /\ File' = ResolvePaths(File, filename')
                 /\ Advance(0)
                 /\ UNCHANGED << CACert, msg >>
     ELSE IF IsGoLang
       THEN IF CACert = EmptyStr \/ ServerCert = EmptyStr
              THEN /\ Fatal("missing-parameter")
                   /\ UNCHANGED << filename, File, CACert >>
              ELSE /\ CACert' = ResolveCACert(CACert)
                   /\ File' = [ File EXCEPT
                                  !.Cert = Join(Dir.Cert, Concat(ServerCert, EXT_CERT)),
                                  !.Key = Join(Dir.Key, Concat(ServerCert, EXT_KEY)) ]
                   /\ Advance(0)
                   /\ UNCHANGED << filename, msg >>
     ELSE IF IsNew
       THEN /\ Advance(0)
            /\ UNCHANGED << filename, File, CACert, msg >>
     ELSE IF Len(args) = 0 \/ args[1] = EmptyStr THEN Panic
     ELSE /\ filename' = ResolveName(args[1], IsCert, IsKey)
          /\ Advance(0)
          /\ UNCHANGED << File, CACert, msg >>
  /\ UNCHANGED << fs, fs0, runs, flags, args, Years, ServerCert, isExit,
                  calls, out, failed, step, umask >>

\* A run of OpenSSL through one of the wrappers: it is recorded, and a
\* failure of the tool is fatal.
ToolRun(ops, ok) ==
  /\ calls' = calls \o ops
  /\ IF ok \/ ops = << >>
       THEN Exit("exit0") /\ UNCHANGED << failed, msg >>
       ELSE /\ Fatal("error")
            /\ failed' = Append(failed, ops[Len(ops)].op)

\* Lines 287-294.
CheckBlock ==
  /\ pc = "chk"
  /\ \E ok \in BOOLEAN :
       ToolRun(IF IsCert THEN << Call("CheckCert", filename) >>
               ELSE IF IsKey THEN << Call("CheckKey", filename) >>
               ELSE << >>, ok)
  /\ UNCHANGED << fs, fs0, runs, flags, args, Years, CACert, ServerCert,
                  filename, File, isExit, out, step, umask >>

\* Lines 296-303.
CatBlock ==
  /\ pc = "cat"
  /\ \E ok \in BOOLEAN :
       ToolRun(IF IsCert THEN << Call("InfoCert", filename) >>
               ELSE IF IsKey THEN << Call("InfoKey", filename) >>
               ELSE << >>, ok)
  /\ UNCHANGED << fs, fs0, runs, flags, args, Years, CACert, ServerCert,
                  filename, File, isExit, out, step, umask >>

\* The queries -i runs, in order (lines 306-322).
InfoOps ==
  IF IsFullInfo THEN << Call("InfoFull", filename) >>
  ELSE (IF IsEndDate THEN << Call("InfoEndDate", filename) >> ELSE << >>)
    \o (IF IsHash THEN << Call("HashInfo", filename) >> ELSE << >>)
    \o (IF IsIssuer THEN << Call("InfoIssuer", filename) >> ELSE << >>)
    \o (IF IsName THEN << Call("InfoName", filename) >> ELSE << >>)

\* Lines 305-324: the queries run until one fails.
InfoBlock ==
  /\ pc = "i"
  /\ \E n \in 0..Len(InfoOps), ok \in BOOLEAN :
       /\ ok => n = Len(InfoOps)
       /\ ~ok => n > 0
       /\ ToolRun(SubSeq(InfoOps, 1, n), ok)
  /\ UNCHANGED << fs, fs0, runs, flags, args, Years, CACert, ServerCert,
                  filename, File, isExit, out, step, umask >>

\* Lines 326-332 and, when -sign is not given, 343-345.
RequestBlock ==
  /\ pc = "req"
  /\ IF StatFound(fs, File.Request)
       THEN /\ Fatal("request-exists")
            /\ UNCHANGED << fs, calls, isExit, failed, umask >>
       ELSE /\ calls' = Append(calls, Call("NewRequest", File.Request))
            /\ umask' \in Umasks
            /\ \E ok \in BOOLEAN :
                 IF ok /\ NewRequestOK(fs, File)
                   THEN /\ fs' = NewRequestFS(fs, File, umask')
                        /\ isExit' = TRUE
                        /\ IF IsSignReq THEN pc' = "sign" /\ status' = status
                           ELSE Exit("exit0")
                        /\ UNCHANGED << failed, msg >>
                   ELSE /\ Fatal("error")
                        /\ failed' = Append(failed, "NewRequest")
                        /\ UNCHANGED << fs, isExit >>
  /\ UNCHANGED << fs0, runs, flags, args, Years, CACert, ServerCert,
                  filename, File, out, step >>

\* Lines 333-342.
SignBlock ==
  /\ pc = "sign"
  /\ IF StatFound(fs, File.Cert)
       THEN /\ Fatal("certificate-exists")
            /\ UNCHANGED << fs, calls, out, failed, umask >>
       ELSE /\ out' = out \o (IF isExit THEN << [ kind |-> "msg", val |-> "Sign" ] >>
                              ELSE << >>)
            /\ calls' = Append(calls, Call("SignReq", File.Request))
            /\ umask' \in (IF isExit THEN { umask } ELSE Umasks)
            /\ \E ok \in BOOLEAN :
                 IF ok /\ SignReqOK(fs, File)
                   THEN /\ fs' = SignReqFS(fs, File, umask')
                        /\ Exit("exit0")
                        /\ UNCHANGED << failed, msg >>
                   ELSE /\ Fatal("error")
                        /\ failed' = Append(failed, "SignReq")
                        /\ UNCHANGED fs
  /\ UNCHANGED << fs0, runs, flags, args, Years, CACert, ServerCert,
                  filename, File, isExit, step >>

\* Lines 347-355, up to the call of Cert2Lang.
GoLangBlock ==
  /\ pc = "lang-go"
  /\ IF StatFound(fs, _FILE_SERVER_GO) \/ StatFound(fs, _FILE_CLIENT_GO)
       THEN /\ Fatal("file-exists")
            /\ UNCHANGED << calls, step, umask >>
       ELSE /\ calls' = Append(calls, Call("Cert2Lang", File.Cert))
            /\ pc' = "Cert2Lang"
            /\ step' = 1
            /\ umask' \in Umasks
            /\ UNCHANGED << status, msg >>
  /\ UNCHANGED << fs, fs0, runs, flags, args, Years, CACert, ServerCert,
                  filename, File, isExit, out, failed >>

\* One step of Cert2Lang (lines 450-517); the environment may make it
\* fail.  After the last step main exits (line 354).
Cert2LangStep ==
  /\ pc = "Cert2Lang"
  /\ LET s == Cert2LangSteps[step] IN
       \E ok \in BOOLEAN :
         IF ok /\ Cert2LangStepOK(s, fs, File, CACert)
           THEN /\ fs' = Cert2LangStepFS(s, fs, umask)
                /\ IF step = Len(Cert2LangSteps)
                     THEN Exit("exit0") /\ step' = 0
                     ELSE step' = step + 1 /\ UNCHANGED << pc, status >>
                /\ UNCHANGED << failed, msg >>
           ELSE /\ failed' = Append(failed, s)
                /\ Fatal("error")
                /\ UNCHANGED << fs, step >>
  /\ UNCHANGED << fs0, runs, flags, args, Years, CACert, ServerCert,
                  filename, File, isExit, calls, out, umask >>

\* The -new block without its guard: SetupDir is called whatever os.Stat
\* of the root returns.
RootGuardNever(f) == FALSE

\* Line 358: the test that refuses an existing root.
RootGuard(f) == StatFound(f, Dir.Root)

\* Lines 357-362, up to the call of SetupDir.
NewBlock ==
  /\ pc = "new"
  /\ IF RootGuard(fs)
       THEN /\ Fatal("structure-exists")
            /\ UNCHANGED << calls, step, umask >>
       ELSE /\ calls' = Append(calls, Call("SetupDir", Dir.Root))
            /\ pc' = "SetupDir"
            /\ step' = 1
            /\ umask' \in Umasks
            /\ UNCHANGED << status, msg >>
  /\ UNCHANGED << fs, fs0, runs, flags, args, Years, CACert, ServerCert,
                  filename, File, isExit, out, failed >>

\* One step of SetupDir (lines 370-447); the environment may make it
\* fail.  After the last step the success line is printed and main goes
\* on at line 363.
SetupDirStep ==
  /\ pc = "SetupDir"
  /\ LET s == SetupSteps[step]
         last == step = Len(SetupSteps)
     IN \E ok \in BOOLEAN, notExist \in BOOLEAN :
          /\ (ok \/ s # "statTemplate") => notExist
          /\ IF ok /\ SetupStepOK(s, fs, failed)
               THEN fs' = SetupStepFS(s, fs, umask) /\ failed' = failed
               ELSE fs' = fs /\ failed' = Append(failed, s)
          /\ IF ~(ok /\ SetupStepOK(s, fs, failed)) /\ SetupStepFatal(s, notExist)
               THEN Fatal("error") /\ UNCHANGED << step, out >>
             ELSE IF last
               THEN /\ out' = Append(out, [ kind |-> "msg",
                                            val |-> "Directory structure created" ])
                    /\ step' = 0
                    /\ Advance(7)
                    /\ UNCHANGED msg
             ELSE /\ step' = step + 1
                  /\ UNCHANGED << pc, status, out, msg >>
  /\ UNCHANGED << fs0, runs, flags, args, Years, CACert, ServerCert,
                  filename, File, isExit, calls, umask >>

\* Line 364: the validity BuildCA is called with.
CAYears(y) == 10

\* Lines 363-366.
CABlock ==
  /\ pc = "ca"
  /\ Years' = CAYears(Years)
  /\ calls' = Append(calls, [ op |-> "BuildCA", file |-> File.Cert, years |-> Years' ])
  /\ umask' \in (IF IsNew THEN { umask } ELSE Umasks)
  /\ \E ok \in BOOLEAN :
       IF ok /\ BuildCAOK(fs, File)
         THEN /\ fs' = BuildCAFS(fs, File, umask')
              /\ Exit("exit0")
              /\ UNCHANGED << failed, msg >>
         ELSE /\ Fatal("error")
              /\ failed' = Append(failed, "BuildCA")
              /\ UNCHANGED fs
  /\ UNCHANGED << fs0, runs, flags, args, CACert, ServerCert, filename, File,
                  isExit, out, step >>

Next ==
  \/ Start
  \/ ListStep
  \/ SetPaths
  \/ CheckBlock
  \/ CatBlock
  \/ InfoBlock
  \/ RequestBlock
  \/ SignBlock
  \/ GoLangBlock
  \/ Cert2LangStep
  \/ NewBlock
  \/ SetupDirStep
  \/ CABlock

Spec == Init /\ [][Next]_vars

(* ------------------------------------------------------------------ *)
(* Sequences of -new runs, from an empty home directory               *)
(* ------------------------------------------------------------------ *)

NewFlagSets == SUBSET { "new", "ca", "years" }

InitNew == InitWith({ FS_Empty })

\* The next invocation of a sequence of -new [-ca -years] command lines.
StartNew ==
  /\ pc \in { "idle", "done" }
  /\ runs < MaxNewRuns
  /\ \E fl \in NewFlagSets, a \in ArgInputs : StartWith(fl, a)

NextNew ==
  \/ StartNew
  \/ ListStep
  \/ SetPaths
  \/ NewBlock
  \/ SetupDirStep
  \/ CABlock

SpecNew == InitNew /\ [][NextNew]_vars

(* ------------------------------------------------------------------ *)
(* Path resolution over all short names                               *)
(* ------------------------------------------------------------------ *)

NameChars == { "a", ".", "/" }

RECURSIVE CharSeqsUpTo(_)
CharSeqsUpTo(n) ==
  IF n = 0 THEN { << >> }
  ELSE CharSeqsUpTo(n - 1)
         \cup { Append(cs, c) : cs \in CharSeqsUpTo(n - 1), c \in NameChars }

AllNames == { Str(cs) : cs \in CharSeqsUpTo(MaxNameLen) }

PathFlagSets == SUBSET { "req", "sign", "ca" } \ { {} }

InitPaths == InitWith({ FS_CA })

\* An invocation with -req, -sign or -ca and any short name, or none.
StartPaths ==
  /\ pc = "idle"
  /\ \E fl \in PathFlagSets, a \in { << >> } \cup { << n >> : n \in AllNames } :
       StartWith(fl, a)

\* The run up to the end of the path switch (line 285).
NextPaths ==
  \/ StartPaths
  \/ ListStep
  \/ SetPaths

SpecPaths == InitPaths /\ [][NextPaths]_vars


(* ------------------------------------------------------------------ *)
(* Properties                                                         *)
(* ------------------------------------------------------------------ *)

Ops == { calls[i].op : i \in 1..Len(calls) }

Printed(text) == \E i \in 1..Len(out) : out[i] = [ kind |-> "msg", val |-> text ]

SuccessPrinted == Printed("Directory structure created")

\* The string d + "/" + n + ext, put together without filepath.Join.
Literal(d, n, ext) == Concat(Concat(Concat(d, Str(<< "/" >>)), n), ext)

\* C1: when the root directory exists at the start of a run with -new (with
\* or without -ca), the run never reaches SetupDir or BuildCA, leaves the
\* filesystem as it was and ends by the fatal "directory structure exists"
\* error; this covers every later run of a sequence of -new runs.
C1_GuardedInit ==
  ("new" \in flags /\ Exists(fs0, Dir.Root)) =>
    /\ Ops \cap { "SetupDir", "BuildCA" } = {}
    /\ pc \notin { "SetupDir", "ca" }
    /\ fs = fs0
    /\ pc = "done" => status = "fatal" /\ msg = "structure-exists"

\* A second run, -new -ca, refused on the root the first run created.
C1_Witness ==
  /\ runs = 2
  /\ flags = { "new", "ca" }
  /\ Exists(fs0, Dir.Root)
  /\ pc = "done"
  /\ status = "fatal"

\* The name the claim resolves: "ca" with -ca, else the positional argument.
C2_Name == IF "ca" \in flags THEN _NAME_CA ELSE args[1]

C2_Resolved ==
  /\ flags \cap { "req", "sign", "ca" } # {}
  /\ pc \in { "req", "sign", "ca" }

\* C2 as stated: the three paths are exactly the strings
\* <root>/certs/N.crt, <root>/private/N.key and <root>/N.csr, for every N.
C2_ExactStrings ==
  C2_Resolved =>
    /\ File.Cert = Literal(Dir.Cert, C2_Name, EXT_CERT)
    /\ File.Key = Literal(Dir.Key, C2_Name, EXT_KEY)
    /\ File.Request = Literal(Dir.Root, C2_Name, EXT_REQUEST)

\* C2, amended: once the path switch ran for -req, -sign or -ca, the
\* certificate, key and request paths are the filepath.Clean forms of
\* <root>/certs/N.crt, <root>/private/N.key and <root>/N.csr for the name N
\* (the fixed "ca" with -ca, whatever the arguments); they are exactly these
\* strings when N holds no separator, and each ends in its suffix.
C2_PathResolution ==
  C2_Resolved =>
    /\ File.Cert = Clean(Literal(Dir.Cert, C2_Name, EXT_CERT))
    /\ File.Key = Clean(Literal(Dir.Key, C2_Name, EXT_KEY))
    /\ File.Request = Clean(Literal(Dir.Root, C2_Name, EXT_REQUEST))
    /\ Len(C2_Name) = 1 =>
         /\ File.Cert = Literal(Dir.Cert, C2_Name, EXT_CERT)
         /\ File.Key = Literal(Dir.Key, C2_Name, EXT_KEY)
         /\ File.Request = Literal(Dir.Root, C2_Name, EXT_REQUEST)
    /\ HasSuffix(File.Cert[Len(File.Cert)], EXT_CERT[1])
    /\ HasSuffix(File.Key[Len(File.Key)], EXT_KEY[1])
    /\ HasSuffix(File.Request[Len(File.Request)], EXT_REQUEST[1])

\* -req with the name "/a": the separator that starts the name is cleaned
\* away, and the paths are those of "a".
C2_Witness ==
  /\ C2_Resolved
  /\ flags = { "req" }
  /\ args = << Str(<< "/", "a" >>) >>
  /\ File.Cert = Literal(Dir.Cert, Str(<< "a" >>), EXT_CERT)
  /\ File.Cert # Literal(Dir.Cert, args[1], EXT_CERT)

C3_Matches(d, ext) ==
  { p \in DOMAIN fs0 : p # d /\ ParentOf(p) = d /\ HasSuffix(p[Len(p)], ext[1]) }

C3_Lines ==
  (IF IsCertList /\ C3_Matches(Dir.Cert, EXT_CERT) # {}
     THEN << C3_Matches(Dir.Cert, EXT_CERT) >> ELSE << >>)
  \o (IF IsReqList /\ C3_Matches(Dir.Root, EXT_REQUEST) # {}
        THEN << C3_Matches(Dir.Root, EXT_REQUEST) >> ELSE << >>)

\* C3: a run with -lc and/or -lr and no positional argument prints, for each
\* list asked for, one entry per matching file, each entry the file's last
\* path element (no separator in it), certificates before requests, and
\* then exits with status 0 having run no other mode and changed no file.
C3_ListBaseNames ==
  (Len(args) = 0 /\ (IsCertList \/ IsReqList) /\ pc = "done") =>
    /\ status = "exit0"
    /\ Ops \subseteq { "ListCert", "ListReq" }
    /\ fs = fs0
    /\ Len(out) = Len(C3_Lines)
    /\ \A i \in 1..Len(out) :
         /\ out[i].kind = "list"
         /\ Len(out[i].val) = Cardinality(C3_Lines[i])
         /\ { out[i].val[k] : k \in 1..Len(out[i].val) }
              = { << p[Len(p)] >> : p \in C3_Lines[i] }
         /\ \A k \in 1..Len(out[i].val) : Len(out[i].val[k]) = 1

\* Both lists printed by one run, two certificates in the first.
C3_Witness ==
  /\ Len(args) = 0
  /\ IsCertList
  /\ IsReqList
  /\ pc = "done"
  /\ Len(out) = 2
  /\ Len(out[1].val) = 2

\* C4: a run of -req, -sign, -chk, -cat or -i without a positional argument
\* ends by a fatal error message, having invoked nothing and changed no file.
C4_MissingNameRejected ==
  (/\ flags \cap { "req", "sign", "chk", "cat", "i" } # {}
   /\ flags \cap { "lc", "lr" } = {}
   /\ Len(args) = 0
   /\ pc = "done") =>
    /\ calls = << >>
    /\ fs = fs0
    /\ status = "fatal"

\* C5: a run that ends on an "already exists" message has invoked nothing
\* and has changed no file.
C5_ExistingOutputAbortsFirst ==
  (status = "fatal"
     /\ msg \in { "request-exists", "certificate-exists", "file-exists" }) =>
    /\ calls = << >>
    /\ fs = fs0

Mode(op) ==
  CASE op = "SetupDir" -> "initialize"
    [] op = "BuildCA" -> "ca"
    [] op \in { "NewRequest", "SignReq" } -> "request"
    [] op \in { "ListCert", "ListReq" } -> "list"
    [] op = "Cert2Lang" -> "lang"
    [] OTHER -> "check-cat-info"

Modes == { Mode(op) : op \in Ops }

\* C6 as stated: a run executes operations of at most one mode.
C6_AtMostOneMode == Cardinality(Modes) <= 1

\* C6, amended: a run executes operations of at most one mode, except that
\* -new -ca runs SetupDir and then BuildCA.
C6_OneModeOrNewCA ==
  \/ Cardinality(Modes) <= 1
  \/ /\ IsNew
     /\ IsCA
     /\ Len(calls) = 2
     /\ calls[1].op = "SetupDir"
     /\ calls[2].op = "BuildCA"

C6_Witness ==
  /\ Modes = { "initialize", "ca" }
  /\ pc = "done"
  /\ status = "exit0"

\* C7: a run in which a filesystem step failed has ended by a fatal error
\* and has not printed the success line.
C7_EveryErrorFatal ==
  (pc = "done" /\ failed # << >>) =>
    /\ status = "fatal"
    /\ ~SuccessPrinted

C8_DirOK(p, perm) == IsDir(fs, p) /\ fs[p].perm = perm

\* C8: once the success line is printed the layout is complete: the root
\* and certs, newcerts, crl with mode 0755, private with 0710, an empty
\* index, a serial holding "01\n", and openssl.cfg with mode 0600.
C8_LayoutAfterSuccess ==
  SuccessPrinted =>
    /\ C8_DirOK(Dir.Root, << 7, 5, 5 >>)
    /\ C8_DirOK(Dir.Cert, << 7, 5, 5 >>)
    /\ C8_DirOK(Dir.NewCert, << 7, 5, 5 >>)
    /\ C8_DirOK(Dir.Revok, << 7, 5, 5 >>)
    /\ C8_DirOK(Dir.Key, << 7, 1, 0 >>)
    /\ IsFile(fs, File.Index) /\ fs[File.Index].data = << >>
    /\ IsFile(fs, File.Serial) /\ fs[File.Serial].data = << "0", "1", "\n" >>
    /\ IsFile(fs, File.Config) /\ fs[File.Config].perm = << 6, 0, 0 >>

\* C9: in a -chk, -cat or -i run whose argument starts neither with "." nor
\* with the separator, every query works on <root>/certs/NAME.crt, or on
\* <root>/private/NAME.key when -key is given.
C9_NameInCertsDir ==
  (/\ flags \cap { "chk", "cat", "i" } # {}
   /\ flags \cap { "req", "sign", "ca", "lang-go", "new" } = {}
   /\ Len(args) > 0
   /\ args[1] # EmptyStr
   /\ FirstChar(args[1]) \notin { ".", PathSeparator }) =>
    \A i \in 1..Len(calls) :
      Mode(calls[i].op) = "check-cat-info" =>
        calls[i].file = IF IsKey
                          THEN Literal(Dir.Key, args[1], EXT_KEY)
                          ELSE Literal(Dir.Cert, args[1], EXT_CERT)

\* C10: BuildCA is called with the -years value when -years was given and
\* with 10 otherwise.
C10_YearsDefaultOnly ==
  [][pc = "ca" => Years' = (IF "years" \in flags THEN Years ELSE 10)]_vars

====
